---- MODULE Spec2Model ----
(***************************************************************************)
(* A model of the vocabulary quiz (src/app.py): the Streamlit script as a  *)
(* state machine over st.session_state and the history file, with the      *)
(* distractor generation and the weighted question selection as operators. *)
(***************************************************************************)
EXTENDS Integers, Sequences, FiniteSets, TLC

VARIABLES
    page,             \* st.session_state.page
    keys,             \* the other keys st.session_state holds
    quiz_data,        \* st.session_state.quiz_data
    current_index,    \* st.session_state.current_index
    score,            \* st.session_state.score
    quiz_finished,    \* st.session_state.quiz_finished
    current_choices,  \* st.session_state.current_choices (<< >> is None)
    last_result,      \* st.session_state.last_result (<< >> is None)
    history_file,     \* history.csv: "absent", "ok" or "corrupt"
    history,          \* the rows of history.csv after its header
    word_files,       \* what load_data returns for each file name
    pc,               \* where the script is: "idle", "countdown", "rerun", "error"
    pending,          \* a click that reached the server during a handler's run
    error_shown,      \* what st.error showed in the last script run
    sessions,         \* how many times initialize_quiz has succeeded
    disk_ok,          \* whether history.csv can be written
    gen               \* one run of the pure functions (their own specifications)

vars == <<page, keys, quiz_data, current_index, score, quiz_finished,
          current_choices, last_result, history_file, history, word_files,
          pc, pending, error_shown, sessions, disk_ok, gen>>

session_vars == <<quiz_data, current_index, score, quiz_finished,
                  current_choices, last_result>>

-----------------------------------------------------------------------------
(* Bounds of the model *)

\* the rows history.csv can hold beyond those of one session over the
\* largest word store
SpareRows == 0
\* initialize_quiz succeeds at most this many times
MaxSessions == 2
\* the places by which random.shuffle and random.sample rotate a list in
\* the application's specification
RotationOffsets == {0, 1}

-----------------------------------------------------------------------------
(* Sequences *)

Range(s) == {s[i] : i \in DOMAIN s}

Min(a, b) == IF a < b THEN a ELSE b

Max(a, b) == IF a > b THEN a ELSE b

RemoveAt(s, i) == SubSeq(s, 1, i - 1) \o SubSeq(s, i + 1, Len(s))

\* list.index(x): the first position holding x
IndexOf(s, x) == CHOOSE i \in DOMAIN s : s[i] = x /\ \A j \in 1..(i - 1) : s[j] # x

None == << >>

-----------------------------------------------------------------------------
(* The random module.  Every draw is a nondeterministic choice among the   *)
(* outcomes of positive probability.                                       *)

\* every arrangement of the list s
AllShuffles(s) ==
    {[i \in 1..Len(s) |-> s[p[i]]] : p \in Permutations(1..Len(s))}

\* the arrangements of s that rotate it by one of RotationOffsets
Rotations(s) ==
    IF Len(s) = 0 THEN {s}
    ELSE {[i \in 1..Len(s) |-> s[((i - 1 + r) % Len(s)) + 1]] : r \in RotationOffsets}

\* random.sample(s, k), the generator having arranged s as a
sample(a, k) == SubSeq(a, 1, k)

-----------------------------------------------------------------------------
(* The strings of the model and difflib's view of them *)

MeaningList ==
    <<"a fruit", "a fruit-like", "a vehicle", "the atmosphere", "the sky", "quickly">>

\* len(str) of each meaning
StrLen == <<7, 12, 9, 14, 7, 7>>

\* MatchTable[a][b]: the summed sizes of
\* SequenceMatcher(None, a, b).get_matching_blocks()
MatchTable ==
    << <<7,  7, 3,  2, 1, 2>>,
       <<7, 12, 5,  3, 2, 3>>,
       <<3,  3, 9,  3, 1, 3>>,
       <<1,  2, 2, 14, 5, 0>>,
       <<1,  2, 2,  5, 7, 2>>,
       <<2,  3, 3,  0, 2, 7>> >>

Pos(m) == IndexOf(MeaningList, m)

\* threshold=0.4, in tenths
ThresholdTenths == 4

\* SequenceMatcher.ratio() > threshold, ratio being 2.0 * matches / total length
RatioExceeds(str1, str2, tenths) ==
    10 * 2 * MatchTable[Pos(str1)][Pos(str2)] > tenths * (StrLen[Pos(str1)] + StrLen[Pos(str2)])

is_similar(str1, str2) ==
    IF str1 = str2 THEN TRUE
    ELSE RatioExceeds(str1, str2, ThresholdTenths)

-----------------------------------------------------------------------------
(* Word stores: what load_data returns, the rows in file order *)

NoFile == [loaded |-> FALSE, rows |-> << >>]

StoreOf(rows) == [loaded |-> TRUE, rows |-> rows]

Rows4 ==
    << <<"apple", "a fruit">>, <<"banana", "a fruit-like">>,
       <<"car", "a vehicle">>, <<"sky", "the atmosphere">> >>

Rows3 == SubSeq(Rows4, 1, 3)

Rows5 == Rows4 \o << <<"fast", "quickly">> >>

Rows6 == Rows5 \o << <<"air", "the sky">> >>

\* several words share a meaning: 3 distinct meanings
RowsShared4 ==
    << <<"apple", "a fruit">>, <<"banana", "a fruit">>,
       <<"car", "a vehicle">>, <<"sky", "the atmosphere">> >>

\* several words share a meaning: 4 distinct meanings
RowsShared5 == RowsShared4 \o << <<"fast", "quickly">> >>

\* list(word_data.keys())
KeysOf(rows) == [i \in 1..Len(rows) |-> rows[i][1]]

\* list(word_data.values())
ValuesOf(rows) == [i \in 1..Len(rows) |-> rows[i][2]]

\* word_data[word]
Lookup(rows, word) == rows[CHOOSE i \in DOMAIN rows : rows[i][1] = word][2]

-----------------------------------------------------------------------------
(* The choices of a question (the quiz page, current_choices is None) *)

\* the filter pass without its third check
FilterAccepts_NoPairCheck(candidate, correct_meaning, distractors) ==
    /\ candidate # correct_meaning
    /\ ~is_similar(candidate, correct_meaning)

\* the three checks of the filter pass on one candidate
FilterAccepts(candidate, correct_meaning, distractors) ==
    /\ candidate # correct_meaning
    /\ ~is_similar(candidate, correct_meaning)
    /\ \A i \in DOMAIN distractors : ~is_similar(candidate, distractors[i])

RECURSIVE FilterFrom(_, _, _, _)
\* for candidate in all_meanings, from position i on
FilterFrom(all_meanings, i, correct_meaning, distractors) ==
    IF i > Len(all_meanings) \/ Len(distractors) >= 3 THEN distractors
    ELSE IF FilterAccepts(all_meanings[i], correct_meaning, distractors)
         THEN FilterFrom(all_meanings, i + 1, correct_meaning,
                         Append(distractors, all_meanings[i]))
         ELSE FilterFrom(all_meanings, i + 1, correct_meaning, distractors)

FilterPass(all_meanings, correct_meaning) ==
    FilterFrom(all_meanings, 1, correct_meaning, << >>)

\* the fill loop without "m not in distractors"
FillAccepts_Repeats(m, correct_meaning, distractors) ==
    m # correct_meaning

\* the test of the fill loop on one random.choice
FillAccepts(m, correct_meaning, distractors) ==
    m # correct_meaning /\ m \notin Range(distractors)

RECURSIVE FillOutcomes(_, _, _)
\* while len(distractors) < 3: every list the loop can end with (none
\* when no draw is ever accepted and the loop runs forever)
FillOutcomes(all_meanings, correct_meaning, distractors) ==
    IF Len(distractors) >= 3 THEN {distractors}
    ELSE UNION {FillOutcomes(all_meanings, correct_meaning, Append(distractors, m)) :
                  m \in {x \in Range(all_meanings) :
                            FillAccepts(x, correct_meaning, distractors)}}

\* every value current_choices can get for a question, over the
\* arrangements the application draws for random.shuffle
GenerateChoices(rows, correct_meaning) ==
    UNION {UNION {Rotations(Append(d, correct_meaning)) :
                    d \in FillOutcomes(all_meanings, correct_meaning,
                                       FilterPass(all_meanings, correct_meaning))} :
             all_meanings \in Rotations(ValuesOf(rows))}

-----------------------------------------------------------------------------
(* get_weighted_questions *)

NoRows == << >>

\* history_df.groupby("Word")["IsCorrect"]: 'count' and 'sum' of one word
total_of(rows, word) == Cardinality({i \in DOMAIN rows : rows[i].word = word})

corrects_of(rows, word) ==
    Cardinality({i \in DOMAIN rows : rows[i].word = word /\ rows[i].correct})

wrongs_of(rows, word) == total_of(rows, word) - corrects_of(rows, word)

BaseWeight == 10

WrongWeight == 20

CorrectWeight == 2

MinWeight == 1

\* the weight without "if score < 1: score = 1"
weight_of_NoFloor(rows, word) ==
    BaseWeight + (wrongs_of(rows, word) * WrongWeight)
               - (corrects_of(rows, word) * CorrectWeight)

\* the weight without the wrong answers
weight_of_NoWrongs(rows, word) ==
    LET raw == BaseWeight - (corrects_of(rows, word) * CorrectWeight)
    IN  IF raw < MinWeight THEN MinWeight ELSE raw

\* score = 10 + (w_count * 20) - (c_count * 2); if score < 1: score = 1
weight_of(rows, word) ==
    LET raw == BaseWeight + (wrongs_of(rows, word) * WrongWeight)
                          - (corrects_of(rows, word) * CorrectWeight)
    IN  IF raw < MinWeight THEN MinWeight ELSE raw

weights_of(rows, words) == [i \in DOMAIN words |-> weight_of(rows, words[i])]

\* random.choices(temp_words, weights=temp_weights, k=1)[0]: the word of
\* positive weight that the generator's arrangement puts first
choices_draw(temp_words, temp_weights, arrangement) ==
    LET can == {temp_words[i] : i \in {j \in DOMAIN temp_words : temp_weights[j] > 0}}
        first == CHOOSE i \in DOMAIN arrangement :
                    /\ arrangement[i] \in can
                    /\ \A j \in 1..(i - 1) : arrangement[j] \notin can
    IN  arrangement[first]

RECURSIVE weighted_loop_NoPop(_, _, _, _, _)
\* the loop without the two pops
weighted_loop_NoPop(n, temp_words, temp_weights, selected_questions, arrangement) ==
    IF n <= 0 THEN selected_questions
    ELSE weighted_loop_NoPop(n - 1, temp_words, temp_weights,
             Append(selected_questions,
                    choices_draw(temp_words, temp_weights, arrangement)),
             arrangement)

RECURSIVE weighted_loop(_, _, _, _, _)
\* for _ in range(n): draw, append, pop the word and its weight
weighted_loop(n, temp_words, temp_weights, selected_questions, arrangement) ==
    IF n <= 0 THEN selected_questions
    ELSE LET chosen_word == choices_draw(temp_words, temp_weights, arrangement)
             idx == IndexOf(temp_words, chosen_word)
         IN  weighted_loop(n - 1, RemoveAt(temp_words, idx), RemoveAt(temp_weights, idx),
                           Append(selected_questions, chosen_word), arrangement)

\* the selection losing a word when history.csv cannot be read
get_weighted_questions_ShortOnError(words, num_questions, file, rows, arrangement) ==
    IF file = "absent" THEN sample(arrangement, Min(num_questions, Len(words)))
    ELSE IF file = "corrupt" THEN sample(arrangement, Min(num_questions, Len(words)) - 1)
    ELSE weighted_loop(Min(num_questions, Len(words)), words,
                       weights_of(rows, words), << >>, arrangement)

\* file is "absent", "ok" or "corrupt" (pd.read_csv or the aggregation raises)
get_weighted_questions(words, num_questions, file, rows, arrangement) ==
    IF file = "absent" THEN sample(arrangement, Min(num_questions, Len(words)))
    ELSE IF file = "corrupt" THEN sample(arrangement, Min(num_questions, Len(words)))
    ELSE weighted_loop(Min(num_questions, Len(words)), words,
                       weights_of(rows, words), << >>, arrangement)

-----------------------------------------------------------------------------
(* The application: configuration *)

Courses == {"Test", "TOEIC Kurofure", "TOEIC Review"}

QUIZ_FILES ==
    [c \in Courses |->
        IF c = "Test" THEN "toeic_words_gemini.xlsx" ELSE "toeic_words.xlsx"]

Filenames == {QUIZ_FILES[c] : c \in Courses}

\* st.slider("問題数", min_value=5, ...): the values the model offers
MinQuestions == 5

NumQuestionChoices == {MinQuestions, MinQuestions + 1}

\* 0 is no time limit; st.slider(..., min_value=3, max_value=10, value=5)
DefaultTimeLimit == 5

TimeLimitChoices == {0, DefaultTimeLimit}

\* the least number of words of a usable store
MinWords == 4

\* the files the model starts with: load_data caches what it returned
InitialFiles ==
    {[f \in Filenames |-> IF f = "toeic_words.xlsx" THEN StoreOf(Rows4) ELSE StoreOf(Rows3)],
     [f \in Filenames |-> IF f = "toeic_words.xlsx" THEN NoFile ELSE StoreOf(Rows4)]}

load_data(filename) == word_files[filename]

NoQuizData ==
    [course_name |-> "", words_dict |-> << >>, question_words |-> << >>,
     total_questions |-> 0, time_limit |-> 0, use_ai_mode |-> FALSE]

SessionKeys ==
    {"quiz_data", "current_index", "score", "quiz_finished",
     "current_choices", "last_result"}

NoClick == ""

\* the most rows the model lets history.csv hold
MaxHistory ==
    LET sizes == {Len(word_files[f].rows) : f \in Filenames}
    IN  SpareRows + (CHOOSE n \in sizes : \A k \in sizes : k <= n)

-----------------------------------------------------------------------------
(* The application: the functions of src/app.py *)

\* the check of the store with 3 words let through
load_error_ThreeWords(word_data) ==
    IF ~word_data.loaded \/ Len(word_data.rows) = 0 THEN "load failed"
    ELSE IF Len(word_data.rows) < MinWords - 1 THEN "too few words"
    ELSE ""

\* whether initialize_quiz returns False, and the st.error it shows
load_error(word_data) ==
    IF ~word_data.loaded \/ Len(word_data.rows) = 0 THEN "load failed"
    ELSE IF Len(word_data.rows) < MinWords THEN "too few words"
    ELSE ""

\* the plan holding every word whatever num_questions is
plan_of_AllWords(word_data, num_questions, use_ai_mode, arrangement) ==
    LET words == KeysOf(word_data.rows)
    IN  IF use_ai_mode
        THEN get_weighted_questions(words, Len(words), history_file, history, arrangement)
        ELSE sample(arrangement, Len(words))

\* the plan initialize_quiz draws
plan_of(word_data, num_questions, use_ai_mode, arrangement) ==
    LET words == KeysOf(word_data.rows)
        actual_num == Min(num_questions, Len(words))
    IN  IF use_ai_mode
        THEN get_weighted_questions(words, actual_num, history_file, history, arrangement)
        ELSE sample(arrangement, actual_num)

\* initialize_quiz without "st.session_state.score = 0"
initialize_quiz_KeepsScore(course_name, num_questions, time_limit, use_ai_mode, arrangement) ==
    LET word_data == load_data(QUIZ_FILES[course_name])
        words == KeysOf(word_data.rows)
        actual_num == Min(num_questions, Len(words))
    IN  /\ quiz_data' =
              [course_name |-> course_name,
               words_dict |-> word_data.rows,
               question_words |-> plan_of(word_data, num_questions, use_ai_mode, arrangement),
               total_questions |-> actual_num,
               time_limit |-> time_limit,
               use_ai_mode |-> use_ai_mode]
        /\ current_index' = 0
        /\ score' = score
        /\ quiz_finished' = FALSE
        /\ current_choices' = None
        /\ last_result' = None
        /\ keys' = keys \cup SessionKeys

\* initialize_quiz returning True
initialize_quiz(course_name, num_questions, time_limit, use_ai_mode, arrangement) ==
    LET word_data == load_data(QUIZ_FILES[course_name])
        words == KeysOf(word_data.rows)
        actual_num == Min(num_questions, Len(words))
    IN  /\ quiz_data' =
              [course_name |-> course_name,
               words_dict |-> word_data.rows,
               question_words |-> plan_of(word_data, num_questions, use_ai_mode, arrangement),
               total_questions |-> actual_num,
               time_limit |-> time_limit,
               use_ai_mode |-> use_ai_mode]
        /\ current_index' = 0
        /\ score' = 0
        /\ quiz_finished' = FALSE
        /\ current_choices' = None
        /\ last_result' = None
        /\ keys' = keys \cup SessionKeys

\* save_history writing 1 whatever is_correct is
save_history_AlwaysCorrect(word, is_correct) ==
    /\ history_file' = IF history_file = "corrupt" THEN "corrupt" ELSE "ok"
    /\ history' = Append(history, [word |-> word, correct |-> TRUE])

\* save_history opening history.csv with mode 'w'
save_history_Truncating(word, is_correct) ==
    /\ history_file' = IF history_file = "corrupt" THEN "corrupt" ELSE "ok"
    /\ history' = <<[word |-> word, correct |-> is_correct]>>

\* save_history with the file writable
save_history(word, is_correct) ==
    /\ history_file' = IF history_file = "corrupt" THEN "corrupt" ELSE "ok"
    /\ history' = Append(history, [word |-> word, correct |-> is_correct])

\* move_to_next finishing one question early
move_to_next_Early ==
    /\ current_index' = current_index + 1
    /\ current_choices' = None
    /\ quiz_finished' =
          IF current_index + 2 >= quiz_data.total_questions THEN TRUE ELSE quiz_finished

\* move_to_next without "quiz_finished = True"
move_to_next_NeverFinishes ==
    /\ current_index' = current_index + 1
    /\ current_choices' = None
    /\ quiz_finished' = quiz_finished

\* st.session_state.current_index += 1 and what follows
move_to_next ==
    /\ current_index' = current_index + 1
    /\ current_choices' = None
    /\ quiz_finished' =
          IF current_index + 1 >= quiz_data.total_questions THEN TRUE ELSE quiz_finished

q_word_now == quiz_data.question_words[current_index + 1]

correct_meaning_now == Lookup(quiz_data.words_dict, q_word_now)

\* check_answer adding to the score whatever was selected
check_answer_AlwaysScores(selected_meaning) ==
    LET is_correct == (selected_meaning = correct_meaning_now)
    IN  /\ save_history(q_word_now, is_correct)
        /\ score' = score + 1
        /\ last_result' = IF is_correct THEN <<"correct", "", "success">>
                                         ELSE <<"wrong", correct_meaning_now, "error">>
        /\ move_to_next

check_answer(selected_meaning) ==
    LET is_correct == (selected_meaning = correct_meaning_now)
    IN  /\ save_history(q_word_now, is_correct)
        /\ score' = IF is_correct THEN score + 1 ELSE score
        /\ last_result' = IF is_correct THEN <<"correct", "", "success">>
                                         ELSE <<"wrong", correct_meaning_now, "error">>
        /\ move_to_next

\* handle_time_up without its save_history call
handle_time_up_Unlogged ==
    /\ UNCHANGED <<history_file, history>>
    /\ score' = score
    /\ last_result' = <<"time up", correct_meaning_now, "error">>
    /\ move_to_next

handle_time_up ==
    /\ save_history(q_word_now, FALSE)
    /\ score' = score
    /\ last_result' = <<"time up", correct_meaning_now, "error">>
    /\ move_to_next

go_to_menu ==
    /\ page' = "menu"
    /\ keys' = keys \ {"quiz_data"}
    /\ quiz_data' = NoQuizData

-----------------------------------------------------------------------------
(* The application: one action per script run *)

\* the quiz page shows a question: neither finished nor left
Active == page = "quiz" /\ "quiz_data" \in keys /\ ~quiz_finished

\* the script has ended or waits in the countdown loop, which a click interrupts
Waiting == pc \in {"idle", "countdown"}

\* a click on a choice button that reaches the server once the countdown
\* loop has made its last widget call before handle_time_up: nothing
\* interrupts the script any more, and the rerun that follows carries it
LateClicks ==
    IF \/ Len(history) + 2 <= MaxHistory
       \/ current_index + 1 >= quiz_data.total_questions
    THEN {NoClick} \cup Range(current_choices)
    ELSE {NoClick}

\* save_history raises: the handler ends there and the script run with it
HandlerRaises ==
    /\ pc' = "idle"
    /\ pending' = NoClick
    /\ error_shown' = "exception"
    /\ UNCHANGED <<page, keys, session_vars, history_file, history,
                   word_files, sessions, disk_ok, gen>>

\* a course button of the menu page
StartCourse(course_name, num_q, time_limit, use_ai, arrangement) ==
    /\ page = "menu" /\ pc = "idle"
    /\ LET err == load_error(load_data(QUIZ_FILES[course_name]))
       IN  IF err # ""
           THEN /\ error_shown' = err
                /\ UNCHANGED <<page, keys, session_vars, pc, sessions>>
           ELSE /\ sessions < MaxSessions
                /\ initialize_quiz(course_name, num_q, time_limit, use_ai, arrangement)
                /\ page' = "quiz"
                /\ pc' = "rerun"
                /\ sessions' = sessions + 1
                /\ error_shown' = ""
    /\ pending' = NoClick
    /\ UNCHANGED <<history_file, history, word_files, disk_ok, gen>>

\* the reset button of the dashboard, shown when history.csv has rows
ResetHistory ==
    /\ page = "menu" /\ pc = "idle"
    /\ history_file = "ok" /\ Len(history) > 0
    /\ history_file' = "absent"
    /\ history' = NoRows
    /\ pc' = "rerun"
    /\ pending' = NoClick
    /\ error_shown' = ""
    /\ UNCHANGED <<page, keys, session_vars, word_files, sessions, disk_ok, gen>>

\* a choice button: check_answer(choice); st.rerun().  In the countdown
\* loop the click interrupts the loop at its next widget call.
ClickChoice(choice) ==
    /\ Active /\ Waiting
    /\ choice \in Range(current_choices)
    /\ Len(history) < MaxHistory
    /\ IF disk_ok
       THEN /\ check_answer(choice)
            /\ pc' = "rerun"
            /\ pending' = NoClick
            /\ error_shown' = ""
            /\ UNCHANGED <<page, keys, quiz_data, word_files, sessions, disk_ok, gen>>
       ELSE HandlerRaises

\* the countdown loop finds remaining <= 0: handle_time_up(); st.rerun()
TimeUp(late) ==
    /\ Active /\ pc = "countdown"
    /\ Len(history) < MaxHistory
    /\ IF disk_ok
       THEN /\ handle_time_up
            /\ pc' = "rerun"
            /\ pending' = late
            /\ error_shown' = ""
            /\ UNCHANGED <<page, keys, quiz_data, word_files, sessions, disk_ok, gen>>
       ELSE HandlerRaises

\* the abort button of the quiz page or the menu button of the result page
BackToMenu ==
    /\ page = "quiz" /\ "quiz_data" \in keys /\ Waiting
    /\ go_to_menu
    /\ pc' = "rerun"
    /\ pending' = NoClick
    /\ error_shown' = ""
    /\ UNCHANGED <<current_index, score, quiz_finished, current_choices, last_result,
                   history_file, history, word_files, sessions, disk_ok, gen>>

\* the retry button starting the session without its time limit
Retry_NoTimer(arrangement) ==
    /\ page = "quiz" /\ "quiz_data" \in keys /\ quiz_finished /\ pc = "idle"
    /\ LET d == quiz_data
           err == load_error(load_data(QUIZ_FILES[d.course_name]))
       IN  IF err # ""
           THEN /\ error_shown' = err
                /\ UNCHANGED <<keys, session_vars, sessions>>
           ELSE /\ sessions < MaxSessions
                /\ initialize_quiz(d.course_name, d.total_questions, 0,
                                   d.use_ai_mode, arrangement)
                /\ sessions' = sessions + 1
                /\ error_shown' = ""
    /\ pc' = "rerun"
    /\ pending' = NoClick
    /\ UNCHANGED <<page, history_file, history, word_files, disk_ok, gen>>

\* the retry button of the result page
Retry(arrangement) ==
    /\ page = "quiz" /\ "quiz_data" \in keys /\ quiz_finished /\ pc = "idle"
    /\ LET d == quiz_data
           err == load_error(load_data(QUIZ_FILES[d.course_name]))
       IN  IF err # ""
           THEN /\ error_shown' = err
                /\ UNCHANGED <<keys, session_vars, sessions>>
           ELSE /\ sessions < MaxSessions
                /\ initialize_quiz(d.course_name, d.total_questions, d.time_limit,
                                   d.use_ai_mode, arrangement)
                /\ sessions' = sessions + 1
                /\ error_shown' = ""
    /\ pc' = "rerun"
    /\ pending' = NoClick
    /\ UNCHANGED <<page, history_file, history, word_files, disk_ok, gen>>

\* the script run that st.rerun() starts, choices being what the
\* question shows
Render(choices) ==
    /\ pc = "rerun"
    /\ pending' = NoClick
    /\ IF ~Active
       THEN \* the menu page or the result page: nothing is written
            /\ pc' = "idle"
            /\ error_shown' = ""
            /\ UNCHANGED <<page, keys, session_vars, history_file, history,
                           word_files, sessions, disk_ok, gen>>
       ELSE /\ IF pending # NoClick /\ pending \in Range(choices)
               THEN \* st.button(choice) is True for the carried click
                    IF disk_ok
                    THEN /\ check_answer(pending)
                         /\ pc' = "rerun"
                         /\ error_shown' = ""
                         /\ UNCHANGED <<page, keys, quiz_data, word_files,
                                        sessions, disk_ok, gen>>
                    ELSE /\ pc' = "idle"
                         /\ error_shown' = "exception"
                         /\ current_choices' = choices
                         /\ last_result' = None
                         /\ UNCHANGED <<page, keys, quiz_data, current_index, score,
                                        quiz_finished, history_file, history,
                                        word_files, sessions, disk_ok, gen>>
               ELSE /\ current_choices' = choices
                    /\ last_result' = None
                    /\ pc' = IF quiz_data.time_limit > 0 THEN "countdown" ELSE "idle"
                    /\ error_shown' = ""
                    /\ UNCHANGED <<page, keys, quiz_data, current_index, score,
                                   quiz_finished, history_file, history,
                                   word_files, sessions, disk_ok, gen>>

\* history.csv stops being writable, or is writable again
DiskChanges ==
    /\ disk_ok' = ~disk_ok
    /\ UNCHANGED <<page, keys, session_vars, history_file, history, word_files,
                   pc, pending, error_shown, sessions, gen>>

\* the script run drawing the choices whether cached or not
RenderStep_Regenerates ==
    IF Active
    THEN \E choices \in GenerateChoices(quiz_data.words_dict, correct_meaning_now) :
             Render(choices)
    ELSE Render(current_choices)

\* if st.session_state.current_choices is None: the choices are drawn
RenderStep ==
    IF Active /\ current_choices = None
    THEN \E choices \in GenerateChoices(quiz_data.words_dict, correct_meaning_now) :
             Render(choices)
    ELSE Render(current_choices)

NoGen == [phase |-> "none"]

Init ==
    /\ page = "menu"
    /\ keys = {}
    /\ quiz_data = NoQuizData
    /\ current_index = 0
    /\ score = 0
    /\ quiz_finished = FALSE
    /\ current_choices = None
    /\ last_result = None
    /\ history_file = "absent"
    /\ history = NoRows
    /\ word_files \in InitialFiles
    /\ pc = "idle"
    /\ pending = NoClick
    /\ error_shown = ""
    /\ sessions = 0
    /\ disk_ok = TRUE
    /\ gen = NoGen

\* the steps of a session: questions answered or timed out, then retried
Play ==
    \/ /\ Active /\ Waiting
       /\ \E choice \in Range(current_choices) : ClickChoice(choice)
    \/ /\ Active /\ pc = "countdown"
       /\ \E late \in LateClicks : TimeUp(late)
    \/ /\ page = "quiz" /\ quiz_finished /\ pc = "idle"
       /\ \E a \in Rotations(KeysOf(quiz_data.words_dict)) : Retry(a)
    \/ /\ pc = "rerun"
       /\ RenderStep

\* a course button of the menu, with the options of the menu
Start ==
    /\ page = "menu" /\ pc = "idle"
    /\ \E c \in Courses, n \in NumQuestionChoices, t \in TimeLimitChoices,
          ai \in BOOLEAN :
          \E a \in Rotations(KeysOf(load_data(QUIZ_FILES[c]).rows)) :
             StartCourse(c, n, t, ai, a)

Next ==
    \/ Start
    \/ Play
    \/ ResetHistory
    \/ BackToMenu

Spec == Init /\ [][Next]_vars

\* the application when history.csv can stop being writable
NextIO == Next \/ DiskChanges

SpecIO == Init /\ [][NextIO]_vars

\* history.csv becomes a file pd.read_csv or the aggregation fails on,
\* before a course button or the retry button has the history read
HistoryDamaged ==
    /\ pc = "idle"
    /\ page = "menu" \/ quiz_finished
    /\ history_file # "corrupt"
    /\ history_file' = "corrupt"
    /\ UNCHANGED <<page, keys, session_vars, history, word_files,
                   pc, pending, error_shown, sessions, disk_ok, gen>>

\* sessions started and retried when history.csv can become unreadable
NextHist == Start \/ Play \/ HistoryDamaged

SpecHist == Init /\ [][NextHist]_vars

\* the quiz page is run again with no button pressed (the viewer's rerun)
Rerender ==
    /\ page = "quiz" /\ Waiting
    /\ pc' = "rerun"
    /\ pending' = NoClick
    /\ UNCHANGED <<page, keys, session_vars, history_file, history, word_files,
                   error_shown, sessions, disk_ok, gen>>

\* the application when its pages are also run again without an event
NextRerun == Next \/ Rerender

SpecRerun == Init /\ [][NextRerun]_vars

\* the application over a store of more words than the least question count
LongFiles ==
    {[f \in Filenames |-> IF f = "toeic_words.xlsx" THEN NoFile ELSE StoreOf(Rows6)]}

InitLong ==
    /\ word_files \in LongFiles
    /\ page = "menu" /\ keys = {} /\ quiz_data = NoQuizData
    /\ current_index = 0 /\ score = 0 /\ quiz_finished = FALSE
    /\ current_choices = None /\ last_result = None
    /\ history_file = "absent" /\ history = NoRows
    /\ pc = "idle" /\ pending = NoClick /\ error_shown = ""
    /\ sessions = 0 /\ disk_ok = TRUE /\ gen = NoGen

\* sessions over it that are played to their end
NextLong == Start \/ Play

SpecLong == InitLong /\ [][NextLong]_vars

-----------------------------------------------------------------------------
(* The choices of one question on their own: every arrangement random.shuffle *)
(* can produce, and the fill loop one random.choice at a time                *)

\* the stores the choices are generated over: each has 4 words or more
DistractorStores == {Rows4, Rows5, Rows6, RowsShared4, RowsShared5}

AppIdle ==
    /\ page = "menu" /\ keys = {} /\ quiz_data = NoQuizData
    /\ current_index = 0 /\ score = 0 /\ quiz_finished = FALSE
    /\ current_choices = None /\ last_result = None
    /\ history_file = "absent" /\ history = NoRows
    /\ word_files = [f \in Filenames |-> NoFile]
    /\ pc = "idle" /\ pending = NoClick /\ error_shown = ""
    /\ sessions = 0 /\ disk_ok = TRUE

app_vars == <<page, keys, session_vars, history_file, history, word_files,
              pc, pending, error_shown, sessions, disk_ok>>

InitDistractor ==
    /\ AppIdle
    /\ \E rows \in DistractorStores : \E i \in DOMAIN rows :
          gen = [phase |-> "start", rows |-> rows, q_word |-> rows[i][1],
                 correct_meaning |-> rows[i][2], all_meanings |-> << >>,
                 accepted |-> 0, distractors |-> << >>, choices |-> None]

\* random.shuffle(all_meanings) and the filter pass
GenFilter ==
    /\ gen.phase = "start"
    /\ \E all_meanings \in AllShuffles(ValuesOf(gen.rows)) :
          LET distractors == FilterPass(all_meanings, gen.correct_meaning)
          IN  gen' = [gen EXCEPT !.phase = "fill", !.all_meanings = all_meanings,
                                 !.accepted = Len(distractors),
                                 !.distractors = distractors]
    /\ UNCHANGED app_vars

\* one turn of while len(distractors) < 3
GenFillStep ==
    /\ gen.phase = "fill" /\ Len(gen.distractors) < 3
    /\ \E m \in Range(gen.all_meanings) :
          gen' = IF FillAccepts(m, gen.correct_meaning, gen.distractors)
                 THEN [gen EXCEPT !.distractors = Append(gen.distractors, m)]
                 ELSE gen
    /\ UNCHANGED app_vars

\* choices.append(correct_meaning); random.shuffle(choices)
GenFinish ==
    /\ gen.phase = "fill" /\ Len(gen.distractors) >= 3
    /\ \E choices \in AllShuffles(Append(gen.distractors, gen.correct_meaning)) :
          gen' = [gen EXCEPT !.phase = "done", !.choices = choices]
    /\ UNCHANGED app_vars

NextDistractor == GenFilter \/ GenFillStep \/ GenFinish

SpecDistractor == InitDistractor /\ [][NextDistractor]_vars

-----------------------------------------------------------------------------
(* get_weighted_questions on its own: every word list, count and history *)

\* the most corrects a word has in the histories drawn
MaxCorrects == 16
\* the most wrongs a word has in the histories drawn
MaxWrongs == 2
\* the greatest num_questions drawn
MaxCount == 5

Rep(n, row) == [i \in 1..n |-> row]

\* c correct answers of "apple" and of "banana", then w wrong ones of "apple"
HistoryOf(c, w) ==
    Rep(c, [word |-> "apple", correct |-> TRUE])
      \o Rep(c, [word |-> "banana", correct |-> TRUE])
      \o Rep(w, [word |-> "apple", correct |-> FALSE])

SelectHistories == {HistoryOf(c, w) : c \in 0..MaxCorrects, w \in 0..MaxWrongs}

SelectWords == {KeysOf(SubSeq(Rows4, 1, n)) : n \in 0..4}

InitSelect ==
    /\ AppIdle
    /\ \E words \in SelectWords, count \in 0..MaxCount :
          \/ \E file \in {"absent", "corrupt"} :
                gen = [phase |-> "start", words |-> words, count |-> count,
                       file |-> file, rows |-> NoRows, result |-> << >>]
          \/ \E rows \in SelectHistories :
                gen = [phase |-> "start", words |-> words, count |-> count,
                       file |-> "ok", rows |-> rows, result |-> << >>]

SelectRun ==
    /\ gen.phase = "start"
    /\ \E arrangement \in AllShuffles(gen.words) :
          gen' = [gen EXCEPT !.phase = "selected",
                    !.result = get_weighted_questions(gen.words, gen.count, gen.file,
                                                      gen.rows, arrangement)]
    /\ UNCHANGED app_vars

NextSelect == SelectRun

SpecSelect == InitSelect /\ [][NextSelect]_vars

-----------------------------------------------------------------------------
(* Properties of the application (Spec, SpecIO, SpecLong) *)

\* C1: the click and the expiry of the countdown of one question exclude
\* each other: the one that came second is ignored, so a click that lost to
\* the countdown does not advance current_index.
C1_LoserIgnored ==
    [][pending # NoClick => current_index' = current_index]_vars

\* the step appends one row for the question shown, with this flag
Logged(is_correct) ==
    history' = Append(history, [word |-> quiz_data.question_words[current_index + 1],
                                correct |-> is_correct])

MeaningShown ==
    Lookup(quiz_data.words_dict, quiz_data.question_words[current_index + 1])

C2Step ==
    /\ \A choice \in Range(current_choices) :
          ClickChoice(choice) => Logged(choice = MeaningShown)
    /\ \A late \in LateClicks :
          TimeUp(late) => Logged(FALSE)
    /\ (pc = "rerun" /\ Active /\ current_index' = current_index + 1)
          => Logged(pending = MeaningShown)
    /\ (history' # history /\ history' # NoRows)
          => (Active /\ current_index' = current_index + 1)

\* C2: each check_answer and each handle_time_up on an active session
\* appends exactly one row to the history, of the word at current_index
\* before the advance, flagged correct exactly when check_answer got the
\* meaning of that word; nothing else appends.
C2_OneEventPerCall == [][C2Step]_vars

\* a time-out was logged after a correct answer
C2_Witness ==
    /\ last_result # None /\ last_result[1] = "time up"
    /\ \E i \in DOMAIN history : history[i].correct
    /\ ~history[Len(history)].correct

C3Step ==
    /\ (page = "menu" /\ page' = "quiz") =>
          \A c \in Courses, n \in NumQuestionChoices, t \in TimeLimitChoices,
             ai \in BOOLEAN :
             \A a \in Rotations(KeysOf(load_data(QUIZ_FILES[c]).rows)) :
                StartCourse(c, n, t, ai, a) =>
                    /\ Len(load_data(QUIZ_FILES[c]).rows) >= 4
                    /\ quiz_data'.total_questions = Min(n, Len(load_data(QUIZ_FILES[c]).rows))
                    /\ current_index' = 0 /\ ~quiz_finished'
    /\ (Active /\ history' # history) => current_index' = current_index + 1
    /\ "quiz_data" \in keys' =>
          /\ quiz_finished' <=> (current_index' = quiz_data'.total_questions)
          /\ current_index' <= quiz_data'.total_questions
          /\ score' \in 0..quiz_data'.total_questions
          /\ sessions' = 1 => Len(history') = current_index'

\* C3: a session of n questions over m >= 4 words has total_questions =
\* min(n, m); each answer or time-out advances current_index by one; the
\* session is finished exactly when current_index = total_questions, which
\* current_index never exceeds, and the score is in 0..min(n, m).
C3_FinishedAfterMin == [][C3Step]_vars

\* 5 questions over a store of 6 words, answered and timed out to the end
C3_Witness ==
    /\ "quiz_data" \in keys /\ quiz_finished
    /\ quiz_data.total_questions = 5 /\ Len(quiz_data.words_dict) = 6
    /\ current_index = 5 /\ Len(history) = 5
    /\ score \in 1..4

\* C9: a check_answer or handle_time_up whose append to the history fails
\* still advances current_index by one and sets last_result.
C9_FailedAppendStillAdvances ==
    [][(/\ ~disk_ok
        /\ \/ \E choice \in Range(current_choices) : ClickChoice(choice)
           \/ \E late \in LateClicks : TimeUp(late))
       => (current_index' = current_index + 1 /\ last_result' # None)]_vars

C10Step ==
    (page = "menu" /\ pc = "idle") =>
        \A c \in Courses :
           (\/ ~load_data(QUIZ_FILES[c]).loaded
            \/ Len(load_data(QUIZ_FILES[c]).rows) < 4) =>
               \A n \in NumQuestionChoices, t \in TimeLimitChoices, ai \in BOOLEAN :
                  \A a \in Rotations(KeysOf(load_data(QUIZ_FILES[c]).rows)) :
                     StartCourse(c, n, t, ai, a) =>
                         /\ error_shown' # ""
                         /\ UNCHANGED session_vars
                         /\ keys' = keys
                         /\ page' = "menu"

\* C10: on a store that failed to load or holds fewer than 4 words
\* initialize_quiz shows an error and writes none of the session's keys,
\* and the page stays the menu.
C10_FailedStartWritesNothing == [][C10Step]_vars

\* the error is shown on the menu while the keys of an earlier session remain
C10_Witness ==
    /\ error_shown \in {"load failed", "too few words"}
    /\ page = "menu"
    /\ "current_index" \in keys /\ current_index > 0

C11Step ==
    (page = "menu" /\ pc = "idle" /\ history_file \in {"absent", "corrupt"}) =>
        \A c \in Courses :
           (load_data(QUIZ_FILES[c]).loaded /\ Len(load_data(QUIZ_FILES[c]).rows) >= 4) =>
              \A n \in NumQuestionChoices, t \in TimeLimitChoices :
                 \A a \in Rotations(KeysOf(load_data(QUIZ_FILES[c]).rows)) :
                    StartCourse(c, n, t, TRUE, a) =>
                       LET k == Min(n, Len(a))
                       IN  /\ page' = "quiz" /\ error_shown' = ""
                           /\ "quiz_data" \in keys' /\ quiz_data'.use_ai_mode
                           /\ quiz_data'.question_words = SubSeq(a, 1, k)
                           /\ Cardinality(Range(quiz_data'.question_words)) = k
                           /\ current_index' = 0 /\ ~quiz_finished'

C11RetryStep ==
    (page = "quiz" /\ "quiz_data" \in keys /\ quiz_finished /\ pc = "idle"
       /\ quiz_data.use_ai_mode /\ history_file \in {"absent", "corrupt"}) =>
        \A a \in Rotations(KeysOf(quiz_data.words_dict)) :
           Retry(a) =>
              /\ page' = "quiz" /\ error_shown' = ""
              /\ quiz_data'.question_words = SubSeq(a, 1, quiz_data.total_questions)
              /\ current_index' = 0 /\ ~quiz_finished'

\* C11: in adaptive mode with the history missing or unreadable the plan
\* is the sample without replacement of min(count, |words|) words that the
\* plain mode draws, no error is shown and the session starts.
C11_SilentFallback == [][C11Step /\ C11RetryStep]_vars

\* an adaptive session just started while history.csv is unreadable
C11_Witness ==
    /\ history_file = "corrupt" /\ Len(history) > 0
    /\ Active /\ quiz_data.use_ai_mode
    /\ pc = "rerun" /\ current_index = 0 /\ current_choices = None
    /\ error_shown = ""

C12Step ==
    \/ history' = history
    \/ /\ Len(history') = Len(history) + 1
       /\ SubSeq(history', 1, Len(history)) = history
    \/ /\ ResetHistory
       /\ history' = NoRows

\* C12: the history changes only by one row appended at its end, the rows
\* before it staying as they were, or by the reset button, which removes
\* all rows at once.
C12_AppendOnly == [][C12Step]_vars

\* rows of two sessions are in the history when the dashboard shows it
C12_Witness ==
    /\ page = "menu" /\ pc = "idle"
    /\ sessions = 2 /\ Len(history) >= 3
    /\ \E i \in DOMAIN history : history[i].correct
    /\ \E i \in DOMAIN history : ~history[i].correct

C13Step ==
    (page = "quiz" /\ "quiz_data" \in keys /\ quiz_finished /\ pc = "idle") =>
        \A a \in Rotations(KeysOf(quiz_data.words_dict)) :
           Retry(a) =>
              /\ page' = "quiz" /\ "quiz_data" \in keys'
              /\ quiz_data'.course_name = quiz_data.course_name
              /\ quiz_data'.total_questions = quiz_data.total_questions
              /\ quiz_data'.time_limit = quiz_data.time_limit
              /\ quiz_data'.use_ai_mode = quiz_data.use_ai_mode
              /\ Len(quiz_data'.question_words) = Len(quiz_data.question_words)
              /\ Cardinality(Range(quiz_data'.question_words))
                    = Len(quiz_data'.question_words)
              /\ Range(quiz_data'.question_words)
                    \subseteq Range(KeysOf(quiz_data'.words_dict))
              /\ current_index' = 0 /\ score' = 0 /\ ~quiz_finished'
              /\ current_choices' = None /\ last_result' = None

\* C13: the retry button of a finished session starts a session of the
\* same course, question count, time limit and adaptive flag, with a plan
\* of the same length drawn anew, current_index 0, score 0, not finished,
\* no choices and no last result.
C13_RetrySameConfig == [][C13Step]_vars

\* the session a retry started, timed and adaptive, after a scored one
C13_Witness ==
    /\ sessions = 2 /\ Active /\ pc = "rerun"
    /\ current_index = 0 /\ score = 0 /\ current_choices = None
    /\ quiz_data.time_limit > 0 /\ quiz_data.use_ai_mode
    /\ Len(history) = quiz_data.total_questions
    /\ \E i \in DOMAIN history : history[i].correct

\* the successor of a wrong answer, the text of the message left open
WrongOutcome ==
    /\ current_index' = current_index + 1
    /\ score' = score
    /\ quiz_finished' = (current_index + 1 >= quiz_data.total_questions)
    /\ current_choices' = None
    /\ Logged(FALSE)
    /\ Len(last_result') = 3
    /\ last_result'[2] = MeaningShown
    /\ last_result'[3] = "error"
    /\ UNCHANGED <<page, keys, quiz_data>>

C14Step ==
    Active =>
        /\ \A late \in LateClicks :
              TimeUp(late) => (WrongOutcome /\ last_result'[1] = "time up")
        /\ \A choice \in Range(current_choices) \ {MeaningShown} :
              ClickChoice(choice) => (WrongOutcome /\ last_result'[1] = "wrong")

\* C14: from an active state handle_time_up and check_answer with a wrong
\* meaning lead to the same successor (current_index, score, quiz_finished,
\* current_choices cleared, the row appended, the kind of last_result) and
\* differ in the text of last_result only.
C14_TimeUpAsWrongAnswer == [][C14Step]_vars

\* a wrong answer given while the countdown of a timed session ran
C14_Witness ==
    /\ last_result # None /\ last_result[1] = "wrong"
    /\ "quiz_data" \in keys /\ quiz_data.time_limit > 0
    /\ current_index >= 2 /\ score >= 1
    /\ ~history[Len(history)].correct

C16Step ==
    /\ (pc = "rerun" /\ Active /\ current_choices # None
           /\ current_index' = current_index /\ sessions' = sessions)
          => current_choices' = current_choices
    /\ (current_choices # None /\ current_choices' # current_choices)
          => /\ current_choices' = None
             /\ \/ current_index' = current_index + 1
                \/ sessions' = sessions + 1
    /\ ("quiz_data" \in keys' /\ current_choices' # None)
          => /\ ~quiz_finished'
             /\ Len(current_choices') = 4
             /\ Cardinality({i \in DOMAIN current_choices' :
                    current_choices'[i] =
                       Lookup(quiz_data'.words_dict,
                              quiz_data'.question_words[current_index' + 1])}) = 1

\* C16: a question run again at the same current_index shows the cached
\* choices in the same order; current_choices is cleared only by a start, a
\* retry or the advance of move_to_next; and the choices of a session hold
\* the correct meaning of question_words[current_index].
C16_ChoicesCached == [][C16Step]_vars

\* a question with its choices cached is being run again
C16_Witness ==
    /\ pc = "rerun" /\ Active
    /\ current_choices # None /\ current_index >= 1
    /\ last_result = None

C17Step ==
    /\ (Active /\ (history' # history \/ pc = "rerun")) => quiz_data' = quiz_data
    /\ (quiz_data' # quiz_data) =>
          \/ sessions' = sessions + 1
          \/ page' = "menu" /\ "quiz_data" \notin keys'
    /\ (page = "menu" /\ page' = "quiz") =>
          \A c \in Courses, n \in NumQuestionChoices, t \in TimeLimitChoices,
             ai \in BOOLEAN :
             \A a \in Rotations(KeysOf(load_data(QUIZ_FILES[c]).rows)) :
                StartCourse(c, n, t, ai, a) =>
                    /\ Len(quiz_data'.question_words)
                          = Min(n, Len(load_data(QUIZ_FILES[c]).rows))
                    /\ quiz_data'.words_dict = load_data(QUIZ_FILES[c]).rows
                    /\ quiz_data'.time_limit = t
                    /\ quiz_data'.use_ai_mode = ai
    /\ "quiz_data" \in keys' =>
          Len(quiz_data'.question_words) = quiz_data'.total_questions

\* C17: answers, time-outs, the advance and the rendering of a question
\* leave question_words, total_questions, words_dict, time_limit and
\* use_ai_mode as the start set them; the plan has min(questionCount,
\* |WordStore|) words; only a start or a retry replaces them.
C17_PlanFixed == [][C17Step]_vars

\* a session of 5 of 6 words, timed and adaptive, three questions on
C17_Witness ==
    /\ Active /\ Waiting /\ current_index >= 3
    /\ Len(quiz_data.question_words) = 5 /\ Len(quiz_data.words_dict) = 6
    /\ quiz_data.time_limit > 0 /\ quiz_data.use_ai_mode
    /\ current_choices # None

\* the rows of the running session where every earlier session was played
\* to its end and retried: they follow total_questions rows per session
SessionEvents(rows, d, n) ==
    SubSeq(rows, (n - 1) * d.total_questions + 1, Len(rows))

C18Step ==
    /\ (sessions' = sessions) => score' >= score
    /\ "quiz_data" \in keys' =>
          LET events == SessionEvents(history', quiz_data', sessions')
          IN  /\ 0 <= score' /\ score' <= current_index'
              /\ current_index' <= quiz_data'.total_questions
              /\ Len(events) = current_index'
              /\ score' = Cardinality({i \in DOMAIN events : events[i].correct})
              /\ \A i \in DOMAIN events :
                    events[i].word = quiz_data'.question_words[i]

\* C18: in a session 0 <= score <= current_index <= total_questions, the
\* score never decreases, it is the number of correct rows the session
\* appended, and the session's rows are the plan's words in plan order,
\* each once.
C18_ScoreCountsCorrectRows == [][C18Step]_vars

\* a retried session has scored after a session of right and wrong answers
C18_Witness ==
    /\ sessions = 2 /\ "quiz_data" \in keys
    /\ current_index >= 1 /\ score >= 1
    /\ \E i \in 1..quiz_data.total_questions : history[i].correct
    /\ \E i \in 1..quiz_data.total_questions : ~history[i].correct

\* check_answer or handle_time_up ran: a row was appended, the index advanced
HandlerRan ==
    \/ Len(history') = Len(history) + 1
    \/ (current_index' = current_index + 1 /\ sessions' = sessions)

C19Step ==
    /\ HandlerRan =>
          /\ page = "quiz" /\ "quiz_data" \in keys /\ ~quiz_finished
          /\ current_index < quiz_data.total_questions
          /\ current_index + 1 \in DOMAIN quiz_data.question_words
    /\ ("quiz_data" \in keys /\ quiz_finished /\ sessions' = sessions) =>
          UNCHANGED <<current_index, score, history>>
    /\ ("quiz_data" \in keys' /\ ~quiz_finished') =>
          current_index' < quiz_data'.total_questions

\* C19: check_answer and handle_time_up run only with quiz_data present,
\* the session not finished and current_index < total_questions, so that
\* question_words[current_index] exists; on a finished session no click
\* and no expiry changes current_index, score or the history before a
\* retry or a new start.
C19_HandlersOnActiveOnly == [][C19Step]_vars

\* the last question timed out and a click on a choice is still to be
\* delivered to the result page
C19_Witness ==
    /\ page = "quiz" /\ "quiz_data" \in keys /\ quiz_finished
    /\ pc = "rerun" /\ pending # NoClick
    /\ current_index = quiz_data.total_questions

C20Step ==
    /\ (page = "quiz" /\ page' = "menu") =>
          /\ history' = history /\ history_file' = history_file
          /\ keys' = keys \ {"quiz_data"}
          /\ UNCHANGED <<current_index, score, quiz_finished,
                         current_choices, last_result>>
    /\ (page = "menu" /\ page' = "quiz") =>
          /\ "quiz_data" \in keys'
          /\ current_index' = 0 /\ score' = 0 /\ ~quiz_finished'
          /\ current_choices' = None /\ last_result' = None
          /\ history' = history

\* C20: go_to_menu leaves the history as it is, removes quiz_data and
\* leaves current_index, score, quiz_finished, current_choices and
\* last_result; a session started after it begins with current_index 0,
\* score 0, not finished, no choices and no last result.
C20_AbortLeaksNothing == [][C20Step]_vars

\* a session begins after one that was left with a score before its end
C20_Witness ==
    /\ sessions = 2 /\ Active /\ pc = "rerun"
    /\ current_index = 0 /\ score = 0 /\ current_choices = None
    /\ Len(history) \in 1..(quiz_data.total_questions - 1)
    /\ \E i \in DOMAIN history : history[i].correct

-----------------------------------------------------------------------------
(* Properties of the generated choices (SpecDistractor) *)

DistinctMeanings(rows) == Cardinality(Range(ValuesOf(rows)))

\* C4: over a store with at least 4 distinct meanings the choices are a
\* 4-element sequence of the correct meaning, once, and 3 pairwise distinct
\* distractors that are meanings of the store.
C4_ChoicesWellFormed ==
    (gen.phase = "done" /\ DistinctMeanings(gen.rows) >= 4) =>
        /\ Len(gen.choices) = 4
        /\ Cardinality({i \in DOMAIN gen.choices :
                           gen.choices[i] = gen.correct_meaning}) = 1
        /\ Cardinality(Range(gen.choices)) = 4
        /\ Range(gen.choices) \subseteq Range(ValuesOf(gen.rows))

\* the fill loop supplied a distractor and the choices are complete
C4_Witness ==
    /\ gen.phase = "done"
    /\ DistinctMeanings(gen.rows) >= 4
    /\ gen.accepted < 3

\* C5: the fill loop ends for every store of 4 words or more: while fewer
\* than 3 distractors are chosen, some draw is accepted.
C5_FillLoopEnds ==
    (gen.phase = "fill" /\ Len(gen.distractors) < 3) =>
        \E m \in Range(gen.all_meanings) :
            FillAccepts(m, gen.correct_meaning, gen.distractors)

\* C6: a distractor the filter pass accepted is similar neither to the
\* correct meaning nor to a distractor accepted before it, and when the
\* pass accepts 3 these are all the distractors.
C6_FilteredNotSimilar ==
    (gen.phase \in {"fill", "done"}) =>
        /\ \A i \in 1..gen.accepted :
              /\ ~is_similar(gen.distractors[i], gen.correct_meaning)
              /\ \A j \in 1..(i - 1) :
                    ~is_similar(gen.distractors[i], gen.distractors[j])
        /\ gen.accepted = 3 => Len(gen.distractors) = 3

\* the filter pass accepted 3 of a store that holds similar meanings
C6_Witness ==
    /\ gen.phase = "done"
    /\ gen.accepted = 3
    /\ gen.rows = Rows6

-----------------------------------------------------------------------------
(* Properties of get_weighted_questions (SpecSelect) *)

\* C7: the selection holds min(count, |words|) words, all of words, none twice.
C7_SelectionDistinct ==
    gen.phase = "selected" =>
        /\ Len(gen.result) = Min(gen.count, Len(gen.words))
        /\ Range(gen.result) \subseteq Range(gen.words)
        /\ Cardinality(Range(gen.result)) = Len(gen.result)

\* the adaptive path drew some but not all of the words
C7_Witness ==
    /\ gen.phase = "selected"
    /\ gen.file = "ok" /\ Len(gen.rows) > 0
    /\ 1 < gen.count /\ gen.count < Len(gen.words)

\* W has wrong answers, V has none, and both have as many correct ones
WrongerPair(rows, W, V) ==
    /\ wrongs_of(rows, W) > 0
    /\ wrongs_of(rows, V) = 0
    /\ corrects_of(rows, W) = corrects_of(rows, V)

\* C8 as stated: the weight of W is strictly greater than the weight of V.
C8_WrongWeighsMore ==
    (gen.phase = "selected" /\ gen.file = "ok") =>
        \A W \in Range(gen.words), V \in Range(gen.words) :
            WrongerPair(gen.rows, W, V) =>
                weight_of(gen.rows, W) > weight_of(gen.rows, V)

\* C8 as amended: the weight of W is at least the weight of V, and strictly
\* greater unless 10 + 20*wrongCount - 2*correctCount of W is 1 or less, where
\* both weights are the floor of 1.
C8_WrongWeighsNoLess ==
    (gen.phase = "selected" /\ gen.file = "ok") =>
        \A W \in Range(gen.words), V \in Range(gen.words) :
            WrongerPair(gen.rows, W, V) =>
                /\ weight_of(gen.rows, W) >= weight_of(gen.rows, V)
                /\ (10 + 20 * wrongs_of(gen.rows, W) - 2 * corrects_of(gen.rows, W) > 1)
                      => weight_of(gen.rows, W) > weight_of(gen.rows, V)

\* such a pair whose weights differ was weighed
C8_Witness ==
    /\ gen.phase = "selected" /\ gen.file = "ok"
    /\ \E W \in Range(gen.words), V \in Range(gen.words) :
          /\ WrongerPair(gen.rows, W, V)
          /\ corrects_of(gen.rows, W) > 0
          /\ weight_of(gen.rows, W) > weight_of(gen.rows, V)

\* the events of a word in the history, counted row by row
EventsOf(rows, word, flag) ==
    Cardinality({k \in DOMAIN rows : rows[k].word = word /\ rows[k].correct = flag})

\* C15: in the adaptive path the weight of every word is
\* max(1, 10 + 20*wrongCount - 2*correctCount) over the whole history, so it
\* is at least 1 and a selection of |words| words holds every word, a word
\* never attempted weighs 10, and over an empty history every word weighs 10.
C15_WeightFormula ==
    (gen.phase = "selected" /\ gen.file = "ok") =>
        /\ \A i \in DOMAIN gen.words :
              LET word == gen.words[i]
                  raw == 10 + 20 * EventsOf(gen.rows, word, FALSE)
                            - 2 * EventsOf(gen.rows, word, TRUE)
                  weight == weights_of(gen.rows, gen.words)[i]
              IN  /\ weight = IF raw > 1 THEN raw ELSE 1
                  /\ weight >= 1
                  /\ (\A k \in DOMAIN gen.rows : gen.rows[k].word # word) => weight = 10
                  /\ gen.rows = NoRows => weight = 10
        /\ gen.count >= Len(gen.words) => Range(gen.result) = Range(gen.words)

\* weights above 10, floored at 1 and of words never attempted, together
C15_Witness ==
    /\ gen.phase = "selected" /\ gen.file = "ok"
    /\ Len(gen.words) = 4 /\ Len(gen.result) = 4
    /\ weight_of(gen.rows, "apple") > 10
    /\ weight_of(gen.rows, "banana") = 1
    /\ 10 - 2 * EventsOf(gen.rows, "banana", TRUE) < 1
    /\ weight_of(gen.rows, "car") = 10

====
